---- MODULE Spec2Model ----
(***************************************************************************)
(* ProximalPolicyOptimization.__init__ (tensorforce/agents/ppo.py) as a    *)
(* state machine: one action per statement of the constructor, from the    *)
(* call that binds the parameters to the super().__init__ call (or the      *)
(* AssertionError that ends the construction before it).                    *)
(*                                                                         *)
(* Python values are tagged records, so that None, numbers, strings and     *)
(* dicts can be held by the same variable and compared:                     *)
(*   None            [tag |-> "None"]                                       *)
(*   int n           [tag |-> "int", val |-> n]                             *)
(*   float f         [tag |-> "float", val |-> f * 10^4]  (fixed point)     *)
(*   str s           [tag |-> "str", val |-> s]                             *)
(*   bool b          [tag |-> "bool", val |-> b]                            *)
(*   dict(k=v, ...)  the record [k |-> v, ...] (no dict has a key "tag")    *)
(***************************************************************************)
EXTENDS Integers, Sequences, FiniteSets, TLC

VARIABLES
    pc,                 \* position in __init__: the line of the next statement
    args,               \* the arguments the constructor was called with
    self_spec,          \* self.spec
    policy,             \* local variables of __init__ ...
    memory,             \* ... memory is the parameter, rebound at 247-250
    update,
    optimizer,
    objective,
    reward_estimation,
    baseline_policy,
    baseline_objective,
    super_calls,        \* keyword arguments of each super().__init__ call, in order
    raised,             \* the exception that ended the construction, or None
    \* TestRewardEstimation (test/test_reward_estimation.py)
    test_method,        \* the test method that is running, or "none"
    test_pos,           \* index of the scenario of that method that is next
    test_phase,         \* "assign": its assignments are next; "call": its unittest() call
    test_locals,        \* local variables of the running test method
    start_name,         \* name given to the last self.start_tests(name=...)
    tests_run,          \* test methods that have returned
    unittest_calls      \* keyword arguments of each self.unittest(...) call, in order

vars == <<pc, args, self_spec, policy, memory, update, optimizer, objective,
          reward_estimation, baseline_policy, baseline_objective, super_calls, raised>>

harness_vars == <<test_method, test_pos, test_phase, test_locals, start_name,
                  tests_run, unittest_calls>>

locals == <<policy, memory, update, optimizer, objective, reward_estimation,
            baseline_policy, baseline_objective>>

----------------------------------------------------------------------------
(* Python values *)

None == [tag |-> "None"]
PyInt(n) == [tag |-> "int", val |-> n]
PyFloat(n) == [tag |-> "float", val |-> n]
PyStr(s) == [tag |-> "str", val |-> s]
PyBool(b) == [tag |-> "bool", val |-> b]

\* a local variable that no statement has bound yet, a field not yet set
Unbound == [tag |-> "unbound"]

----------------------------------------------------------------------------
(* Bounds on the arguments a call is made with *)

MaxBatchSize == 2
MaxMemory == 2
MaxUpdateFrequency == 1

----------------------------------------------------------------------------
(* The signature: defaults of the optional parameters, floats in 10^-4 *)

learning_rate_default == 3
subsampling_fraction_default == 3300
optimization_steps_default == 10
likelihood_ratio_clipping_default == 2000
discount_default == 9900

Defaults ==
    [network |-> PyStr("auto"),
     memory |-> None,
     update_frequency |-> None,
     learning_rate |-> PyFloat(learning_rate_default),
     subsampling_fraction |-> PyFloat(subsampling_fraction_default),
     optimization_steps |-> PyInt(optimization_steps_default),
     likelihood_ratio_clipping |-> PyFloat(likelihood_ratio_clipping_default),
     discount |-> PyFloat(discount_default),
     estimate_terminal |-> PyBool(FALSE),
     critic_network |-> None,
     critic_optimizer |-> None,
     preprocessing |-> None,
     exploration |-> PyFloat(0),
     variable_noise |-> PyFloat(0),
     l2_regularization |-> PyFloat(0),
     entropy_regularization |-> PyFloat(0),
     name |-> PyStr("agent"),
     device |-> None,
     parallel_interactions |-> PyInt(1),
     seed |-> None,
     execution |-> None,
     saver |-> None,
     summarizer |-> None,
     recorder |-> None,
     config |-> None]

\* A caller that sets every pass-through option to a value of its own.
PassThroughCustom ==
    [network |-> [type |-> PyStr("auto"), size |-> PyInt(8)],
     preprocessing |-> [type |-> PyStr("clipping")],
     exploration |-> PyFloat(1000),
     variable_noise |-> PyFloat(2000),
     l2_regularization |-> PyFloat(100),
     entropy_regularization |-> PyFloat(300),
     name |-> PyStr("ppo_agent"),
     device |-> PyStr("CPU"),
     parallel_interactions |-> PyInt(2),
     seed |-> PyInt(7),
     execution |-> [type |-> PyStr("single")],
     saver |-> [directory |-> PyStr("saver_dir")],
     summarizer |-> [directory |-> PyStr("summarizer_dir")],
     recorder |-> [directory |-> PyStr("recorder_dir")],
     config |-> [eager_mode |-> PyBool(FALSE)]]

PassThroughDefaults == [k \in DOMAIN PassThroughCustom |-> Defaults[k]]

Required(batch_size) ==
    [states |-> [type |-> PyStr("float"), shape |-> PyInt(3)],
     actions |-> [type |-> PyStr("int"), num_values |-> PyInt(2)],
     max_episode_timesteps |-> PyInt(5),
     batch_size |-> PyInt(batch_size)]

MemoryValues == {None} \cup {PyInt(n) : n \in 1..MaxMemory}
UpdateFrequencyValues ==
    {None, PyStr("never")} \cup {PyInt(n) : n \in 1..MaxUpdateFrequency}
LearningRateValues == {Defaults.learning_rate, PyFloat(10)}
SubsamplingFractionValues == {Defaults.subsampling_fraction, PyFloat(5000)}
OptimizationStepsValues == {Defaults.optimization_steps, PyInt(4)}
LikelihoodRatioClippingValues == {Defaults.likelihood_ratio_clipping, PyFloat(1000)}
DiscountValues == {Defaults.discount, PyFloat(9000)}
CriticNetworkValues == {None, PyStr("auto")}
CriticOptimizerValues == {None, PyStr("adam")}

----------------------------------------------------------------------------
(* The constructor, statement by statement *)

\* the local variables the test methods assign (test_reward_estimation.py 34-145)
TestLocalNames ==
    {"reward_estimation", "baseline_policy", "baseline_objective", "baseline_optimizer"}

Init ==
    /\ pc = "idle"
    /\ args = Unbound
    /\ self_spec = Unbound
    /\ policy = Unbound
    /\ memory = Unbound
    /\ update = Unbound
    /\ optimizer = Unbound
    /\ objective = Unbound
    /\ reward_estimation = Unbound
    /\ baseline_policy = Unbound
    /\ baseline_objective = Unbound
    /\ super_calls = <<>>
    /\ raised = None
    /\ test_method = "none"
    /\ test_pos = 0
    /\ test_phase = "assign"
    /\ test_locals = [k \in TestLocalNames |-> Unbound]
    /\ start_name = None
    /\ tests_run = {}
    /\ unittest_calls = <<>>

\* ProximalPolicyOptimization(...): the parameters are bound, omitted ones to
\* their defaults; memory is the one parameter the body rebinds.
Call ==
    /\ pc = "idle"
    /\ \E bs \in 1..MaxBatchSize,
          mem \in MemoryValues,
          uf \in UpdateFrequencyValues,
          lr \in LearningRateValues,
          sf \in SubsamplingFractionValues,
          os \in OptimizationStepsValues,
          lrc \in LikelihoodRatioClippingValues,
          disc \in DiscountValues,
          et \in BOOLEAN,
          cn \in CriticNetworkValues,
          co \in CriticOptimizerValues,
          pt \in {PassThroughDefaults, PassThroughCustom} :
            /\ args' = Required(bs) @@ pt @@
                       [memory |-> mem, update_frequency |-> uf, learning_rate |-> lr,
                        subsampling_fraction |-> sf, optimization_steps |-> os,
                        likelihood_ratio_clipping |-> lrc, discount |-> disc,
                        estimate_terminal |-> PyBool(et),
                        critic_network |-> cn, critic_optimizer |-> co]
            /\ memory' = mem
    /\ pc' = "L227"
    /\ UNCHANGED <<self_spec, policy, update, optimizer, objective, reward_estimation,
                   baseline_policy, baseline_objective, super_calls, raised>>
    /\ UNCHANGED harness_vars

\* 247-250: memory = dict(type='recent') or dict(type='recent', capacity=memory)
MemoryBlockAlwaysCapacity(mem) == [type |-> PyStr("recent"), capacity |-> mem]

MemoryBlock(mem) ==
    IF mem = None
    THEN [type |-> PyStr("recent")]
    ELSE [type |-> PyStr("recent"), capacity |-> mem]

\* 227-244: self.spec = OrderedDict(agent='ppo', states=states, ...,
\* memory=memory, ...): every parameter under its own name, read as bound when
\* the statement runs.
SpecRecordOfDerivedMemory(a, mem) ==
    [agent |-> PyStr("ppo")] @@ [a EXCEPT !.memory = MemoryBlock(mem)]

SpecRecord(a, mem) == [agent |-> PyStr("ppo")] @@ [a EXCEPT !.memory = mem]

SetSpec ==
    /\ pc = "L227"
    /\ self_spec' = SpecRecord(args, memory)
    /\ pc' = "L246"
    /\ UNCHANGED <<args, locals, super_calls, raised>>
    /\ UNCHANGED harness_vars

\* 246: policy = dict(network=network, temperature=1.0)
PolicyBlock(network) == [network |-> network, temperature |-> PyFloat(10000)]

SetPolicy ==
    /\ pc = "L246"
    /\ policy' = PolicyBlock(args.network)
    /\ pc' = "L247"
    /\ UNCHANGED <<args, self_spec, memory, update, optimizer, objective,
                   reward_estimation, baseline_policy, baseline_objective,
                   super_calls, raised>>
    /\ UNCHANGED harness_vars

\* 247-250: the parameter memory is rebound to the memory block
SetMemory ==
    /\ pc = "L247"
    /\ memory' = MemoryBlock(memory)
    /\ pc' = "L251"
    /\ UNCHANGED <<args, self_spec, policy, update, optimizer, objective,
                   reward_estimation, baseline_policy, baseline_objective,
                   super_calls, raised>>
    /\ UNCHANGED harness_vars

\* 251-254: update = dict(unit='episodes', batch_size=batch_size[, frequency=...])
UpdateBlockFrequencyDefaulted(batch_size, update_frequency) ==
    [unit |-> PyStr("episodes"), batch_size |-> batch_size,
     frequency |-> IF update_frequency = None THEN batch_size ELSE update_frequency]

UpdateBlock(batch_size, update_frequency) ==
    IF update_frequency = None
    THEN [unit |-> PyStr("episodes"), batch_size |-> batch_size]
    ELSE [unit |-> PyStr("episodes"), batch_size |-> batch_size,
          frequency |-> update_frequency]

SetUpdate ==
    /\ pc = "L251"
    /\ update' = UpdateBlock(args.batch_size, args.update_frequency)
    /\ pc' = "L255"
    /\ UNCHANGED <<args, self_spec, policy, memory, optimizer, objective,
                   reward_estimation, baseline_policy, baseline_objective,
                   super_calls, raised>>
    /\ UNCHANGED harness_vars

\* 255: optimizer = dict(type='adam', learning_rate=learning_rate)
AdamStageFixedRate(learning_rate) ==
    [type |-> PyStr("adam"), learning_rate |-> Defaults.learning_rate]

AdamStage(learning_rate) == [type |-> PyStr("adam"), learning_rate |-> learning_rate]

SetOptimizerAdam ==
    /\ pc = "L255"
    /\ optimizer' = AdamStage(args.learning_rate)
    /\ pc' = "L256"
    /\ UNCHANGED <<args, self_spec, policy, memory, update, objective,
                   reward_estimation, baseline_policy, baseline_objective,
                   super_calls, raised>>
    /\ UNCHANGED harness_vars

\* 256-258: optimizer = dict(type='subsampling_step', optimizer=optimizer, fraction=...)
SubsamplingStage(inner, subsampling_fraction) ==
    [type |-> PyStr("subsampling_step"), optimizer |-> inner,
     fraction |-> subsampling_fraction]

SetOptimizerSubsampling ==
    /\ pc = "L256"
    /\ optimizer' = SubsamplingStage(optimizer, args.subsampling_fraction)
    /\ pc' = "L259"
    /\ UNCHANGED <<args, self_spec, policy, memory, update, objective,
                   reward_estimation, baseline_policy, baseline_objective,
                   super_calls, raised>>
    /\ UNCHANGED harness_vars

\* 259: optimizer = dict(type='multi_step', optimizer=optimizer, num_steps=...)
MultiStepStageInside(inner, optimization_steps) ==
    [inner EXCEPT !.optimizer =
        [type |-> PyStr("multi_step"), optimizer |-> inner.optimizer,
         num_steps |-> optimization_steps]]

MultiStepStage(inner, optimization_steps) ==
    [type |-> PyStr("multi_step"), optimizer |-> inner,
     num_steps |-> optimization_steps]

SetOptimizerMultiStep ==
    /\ pc = "L259"
    /\ optimizer' = MultiStepStage(optimizer, args.optimization_steps)
    /\ pc' = "L260"
    /\ UNCHANGED <<args, self_spec, policy, memory, update, objective,
                   reward_estimation, baseline_policy, baseline_objective,
                   super_calls, raised>>
    /\ UNCHANGED harness_vars

\* 260-262: objective = dict(type='policy_gradient', ratio_based=True, clipping_value=...)
ObjectiveBlockFixedClipping(likelihood_ratio_clipping) ==
    [type |-> PyStr("policy_gradient"), ratio_based |-> PyBool(TRUE),
     clipping_value |-> Defaults.likelihood_ratio_clipping]

ObjectiveBlock(likelihood_ratio_clipping) ==
    [type |-> PyStr("policy_gradient"), ratio_based |-> PyBool(TRUE),
     clipping_value |-> likelihood_ratio_clipping]

SetObjective ==
    /\ pc = "L260"
    /\ objective' = ObjectiveBlock(args.likelihood_ratio_clipping)
    /\ pc' = "L263"
    /\ UNCHANGED <<args, self_spec, policy, memory, update, optimizer,
                   reward_estimation, baseline_policy, baseline_objective,
                   super_calls, raised>>
    /\ UNCHANGED harness_vars

\* 263: if critic_network is None:
CriticIsNone(critic_network) == critic_network = None

TestCritic ==
    /\ pc = "L263"
    /\ pc' = IF CriticIsNone(args.critic_network) THEN "L264" ELSE "L269"
    /\ UNCHANGED <<args, self_spec, locals, super_calls, raised>>
    /\ UNCHANGED harness_vars

\* 264: reward_estimation = dict(horizon='episode', discount=discount)
RewardEstimationNoCritic(discount) ==
    [horizon |-> PyStr("episode"), discount |-> discount]

SetRewardEstimationNoCritic ==
    /\ pc = "L264"
    /\ reward_estimation' = RewardEstimationNoCritic(args.discount)
    /\ pc' = "L265"
    /\ UNCHANGED <<args, self_spec, policy, memory, update, optimizer, objective,
                   baseline_policy, baseline_objective, super_calls, raised>>
    /\ UNCHANGED harness_vars

\* 265: baseline_policy = None
SetBaselinePolicyNone ==
    /\ pc = "L265"
    /\ baseline_policy' = None
    /\ pc' = "L266"
    /\ UNCHANGED <<args, self_spec, policy, memory, update, optimizer, objective,
                   reward_estimation, baseline_objective, super_calls, raised>>
    /\ UNCHANGED harness_vars

\* An assert statement whose condition is false raises AssertionError, which
\* leaves __init__; one whose condition is true falls through to the next line.
AssertStepStripped(condition, next) == pc' = next /\ raised' = raised

AssertStep(condition, next) ==
    IF condition
    THEN pc' = next /\ raised' = raised
    ELSE pc' = "raised" /\ raised' = PyStr("AssertionError")

\* 266: assert critic_optimizer is None
AssertNoCriticConditionInverted(critic_optimizer) == critic_optimizer # None

AssertNoCriticCondition(critic_optimizer) == critic_optimizer = None

AssertCriticOptimizerIsNone ==
    /\ pc = "L266"
    /\ AssertStep(AssertNoCriticCondition(args.critic_optimizer), "L267")
    /\ UNCHANGED <<args, self_spec, locals, super_calls>>
    /\ UNCHANGED harness_vars

\* 267: baseline_objective = None
SetBaselineObjectiveNone ==
    /\ pc = "L267"
    /\ baseline_objective' = None
    /\ pc' = "L278"
    /\ UNCHANGED <<args, self_spec, policy, memory, update, optimizer, objective,
                   reward_estimation, baseline_policy, super_calls, raised>>
    /\ UNCHANGED harness_vars

\* 269-273: reward_estimation = dict(horizon='episode', discount=discount,
\*     estimate_horizon=(False if critic_network is None else 'early'),
\*     estimate_terminal=estimate_terminal, estimate_advantage=True)
RewardEstimationCriticLateTest(discount, critic_network, estimate_terminal) ==
    [horizon |-> PyStr("episode"), discount |-> discount,
     estimate_horizon |->
        IF critic_network # None THEN PyBool(FALSE) ELSE PyStr("early"),
     estimate_terminal |-> estimate_terminal,
     estimate_advantage |-> PyBool(TRUE)]

RewardEstimationCritic(discount, critic_network, estimate_terminal) ==
    [horizon |-> PyStr("episode"), discount |-> discount,
     estimate_horizon |->
        IF critic_network = None THEN PyBool(FALSE) ELSE PyStr("early"),
     estimate_terminal |-> estimate_terminal,
     estimate_advantage |-> PyBool(TRUE)]

SetRewardEstimationCritic ==
    /\ pc = "L269"
    /\ reward_estimation' =
          RewardEstimationCritic(args.discount, args.critic_network,
                                 args.estimate_terminal)
    /\ pc' = "L274"
    /\ UNCHANGED <<args, self_spec, policy, memory, update, optimizer, objective,
                   baseline_policy, baseline_objective, super_calls, raised>>
    /\ UNCHANGED harness_vars

\* 274: baseline_policy = dict(network=critic_network)
BaselinePolicyBlockDropped(critic_network) == None

BaselinePolicyBlock(critic_network) == [network |-> critic_network]

SetBaselinePolicy ==
    /\ pc = "L274"
    /\ baseline_policy' = BaselinePolicyBlock(args.critic_network)
    /\ pc' = "L275"
    /\ UNCHANGED <<args, self_spec, policy, memory, update, optimizer, objective,
                   reward_estimation, baseline_objective, super_calls, raised>>
    /\ UNCHANGED harness_vars

\* 275: assert critic_optimizer is not None
AssertCriticConditionInverted(critic_optimizer) == critic_optimizer = None

AssertCriticCondition(critic_optimizer) == critic_optimizer # None

AssertCriticOptimizerIsNotNone ==
    /\ pc = "L275"
    /\ AssertStep(AssertCriticCondition(args.critic_optimizer), "L276")
    /\ UNCHANGED <<args, self_spec, locals, super_calls>>
    /\ UNCHANGED harness_vars

\* 276: baseline_objective = dict(type='value', value='state')
BaselineObjectiveBlock == [type |-> PyStr("value"), value |-> PyStr("state")]

SetBaselineObjective ==
    /\ pc = "L276"
    /\ baseline_objective' = BaselineObjectiveBlock
    /\ pc' = "L278"
    /\ UNCHANGED <<args, self_spec, policy, memory, update, optimizer, objective,
                   reward_estimation, baseline_policy, super_calls, raised>>
    /\ UNCHANGED harness_vars

\* 278-292: super().__init__(...), the keyword arguments as the call writes them
SuperKwargs(a, pol, mem, upd, opt, obj, rew, bpol, bobj) ==
    [states |-> a.states, actions |-> a.actions,
     max_episode_timesteps |-> a.max_episode_timesteps,
     parallel_interactions |-> a.parallel_interactions,
     buffer_observe |-> PyBool(TRUE), seed |-> a.seed,
     recorder |-> a.recorder, config |-> a.config,
     name |-> a.name, device |-> a.device, execution |-> a.execution,
     saver |-> a.saver, summarizer |-> a.summarizer,
     preprocessing |-> a.preprocessing, exploration |-> a.exploration,
     variable_noise |-> a.variable_noise,
     l2_regularization |-> a.l2_regularization,
     policy |-> pol, memory |-> mem, update |-> upd, optimizer |-> opt,
     objective |-> obj, reward_estimation |-> rew, baseline_policy |-> bpol,
     baseline_optimizer |-> a.critic_optimizer, baseline_objective |-> bobj,
     entropy_regularization |-> a.entropy_regularization]

SuperInit ==
    /\ pc = "L278"
    /\ super_calls' = Append(super_calls,
          SuperKwargs(args, policy, memory, update, optimizer, objective,
                      reward_estimation, baseline_policy, baseline_objective))
    /\ pc' = "done"
    /\ UNCHANGED <<args, self_spec, locals, raised>>
    /\ UNCHANGED harness_vars

Next ==
    \/ Call
    \/ SetSpec
    \/ SetPolicy
    \/ SetMemory
    \/ SetUpdate
    \/ SetOptimizerAdam
    \/ SetOptimizerSubsampling
    \/ SetOptimizerMultiStep
    \/ SetObjective
    \/ TestCritic
    \/ SetRewardEstimationNoCritic
    \/ SetBaselinePolicyNone
    \/ AssertCriticOptimizerIsNone
    \/ SetBaselineObjectiveNone
    \/ SetRewardEstimationCritic
    \/ SetBaselinePolicy
    \/ AssertCriticOptimizerIsNotNone
    \/ SetBaselineObjective
    \/ SuperInit

Spec == Init /\ [][Next]_<<vars, harness_vars>>

----------------------------------------------------------------------------
(* TestRewardEstimation (test/test_reward_estimation.py).

   A test method is self.start_tests(name=...) followed by its scenarios; a
   scenario assigns some of the method's local variables and then calls
   self.unittest(...) with keyword arguments that name locals (pass) or are
   written as the literal True in the call (flags).  A local that a scenario
   does not assign keeps the value an earlier scenario of the method gave it. *)

AutoNetwork(size, internal_rnn) ==
    [type |-> PyStr("auto"), size |-> PyInt(size), depth |-> PyInt(1),
     internal_rnn |-> internal_rnn]

\* 30-39
test_no_horizon_estimate ==
    [name |-> "no horizon estimate",
     scenarios |-> <<
        \* 34-35
        [assign |-> [reward_estimation |->
                        [horizon |-> PyInt(0), discount |-> PyFloat(9900),
                         estimate_horizon |-> PyBool(FALSE)]],
         pass |-> {"reward_estimation"}, flags |-> {}],
        \* 38-39
        [assign |-> [reward_estimation |->
                        [horizon |-> PyInt(10), discount |-> PyFloat(9900),
                         estimate_horizon |-> PyBool(FALSE)]],
         pass |-> {"reward_estimation"}, flags |-> {}] >>]

\* the second scenario (47-54) without its baseline_optimizer
test_early_horizon_estimate_no_optimizer ==
    [name |-> "early horizon estimate",
     scenarios |-> <<
        [assign |-> [reward_estimation |->
                        [horizon |-> PyInt(2), estimate_horizon |-> PyStr("early")]],
         pass |-> {"reward_estimation"}, flags |-> {}],
        [assign |-> [reward_estimation |->
                        [horizon |-> PyInt(2), estimate_horizon |-> PyStr("early"),
                         estimate_actions |-> PyBool(TRUE)],
                     baseline_objective |-> PyStr("policy_gradient")],
         pass |-> {"reward_estimation", "baseline_objective"},
         flags |-> {"exclude_bounded_action"}],
        [assign |-> [reward_estimation |->
                        [horizon |-> PyInt(2), estimate_horizon |-> PyStr("early"),
                         estimate_terminal |-> PyBool(TRUE)],
                     baseline_policy |-> [network |-> AutoNetwork(7, PyInt(2))],
                     baseline_objective |-> PyStr("policy_gradient")],
         pass |-> {"reward_estimation", "baseline_policy", "baseline_objective"},
         flags |-> {}],
        [assign |-> [reward_estimation |->
                        [horizon |-> PyInt(2), estimate_horizon |-> PyStr("early"),
                         estimate_actions |-> PyBool(TRUE),
                         estimate_terminal |-> PyBool(TRUE)],
                     baseline_policy |->
                        [network |-> AutoNetwork(7, PyInt(1)),
                         distributions |-> [float |-> PyStr("gaussian")]],
                     baseline_objective |-> PyStr("policy_gradient"),
                     baseline_optimizer |-> PyStr("adam")],
         pass |-> {"reward_estimation", "baseline_policy", "baseline_objective",
                   "baseline_optimizer"},
         flags |-> {}] >>]

\* 41-78
test_early_horizon_estimate ==
    [name |-> "early horizon estimate",
     scenarios |-> <<
        \* 44-45
        [assign |-> [reward_estimation |->
                        [horizon |-> PyInt(2), estimate_horizon |-> PyStr("early")]],
         pass |-> {"reward_estimation"}, flags |-> {}],
        \* 47-54
        [assign |-> [reward_estimation |->
                        [horizon |-> PyInt(2), estimate_horizon |-> PyStr("early"),
                         estimate_actions |-> PyBool(TRUE)],
                     baseline_objective |-> PyStr("policy_gradient"),
                     baseline_optimizer |-> PyStr("adam")],
         pass |-> {"reward_estimation", "baseline_objective", "baseline_optimizer"},
         flags |-> {"exclude_bounded_action"}],
        \* 56-63
        [assign |-> [reward_estimation |->
                        [horizon |-> PyInt(2), estimate_horizon |-> PyStr("early"),
                         estimate_terminal |-> PyBool(TRUE)],
                     baseline_policy |-> [network |-> AutoNetwork(7, PyInt(2))],
                     baseline_objective |-> PyStr("policy_gradient")],
         pass |-> {"reward_estimation", "baseline_policy", "baseline_objective"},
         flags |-> {}],
        \* 65-78
        [assign |-> [reward_estimation |->
                        [horizon |-> PyInt(2), estimate_horizon |-> PyStr("early"),
                         estimate_actions |-> PyBool(TRUE),
                         estimate_terminal |-> PyBool(TRUE)],
                     baseline_policy |->
                        [network |-> AutoNetwork(7, PyInt(1)),
                         distributions |-> [float |-> PyStr("gaussian")]],
                     baseline_objective |-> PyStr("policy_gradient"),
                     baseline_optimizer |-> PyStr("adam")],
         pass |-> {"reward_estimation", "baseline_policy", "baseline_objective",
                   "baseline_optimizer"},
         flags |-> {}] >>]

\* 80-117
test_late_horizon_estimate ==
    [name |-> "late horizon estimate",
     scenarios |-> <<
        \* 83-85
        [assign |-> [reward_estimation |->
                        [horizon |-> PyInt(2), estimate_horizon |-> PyStr("late")],
                     baseline_objective |-> PyStr("policy_gradient")],
         pass |-> {"reward_estimation", "baseline_objective"}, flags |-> {}],
        \* 87-94
        [assign |-> [reward_estimation |->
                        [horizon |-> PyInt(2), estimate_horizon |-> PyStr("late"),
                         estimate_actions |-> PyBool(TRUE)],
                     baseline_objective |-> PyStr("policy_gradient"),
                     baseline_optimizer |-> PyStr("adam")],
         pass |-> {"reward_estimation", "baseline_objective", "baseline_optimizer"},
         flags |-> {"exclude_bounded_action"}],
        \* 96-102
        [assign |-> [reward_estimation |->
                        [horizon |-> PyInt(2), estimate_horizon |-> PyStr("late"),
                         estimate_terminal |-> PyBool(TRUE)],
                     baseline_policy |-> [network |-> AutoNetwork(7, PyInt(1))],
                     baseline_optimizer |-> PyStr("adam")],
         pass |-> {"reward_estimation", "baseline_policy", "baseline_optimizer"},
         flags |-> {}],
        \* 104-117
        [assign |-> [reward_estimation |->
                        [horizon |-> PyInt(2), estimate_horizon |-> PyStr("late"),
                         estimate_actions |-> PyBool(TRUE),
                         estimate_terminal |-> PyBool(TRUE)],
                     baseline_policy |->
                        [network |-> AutoNetwork(7, PyInt(1)),
                         distributions |-> [float |-> PyStr("gaussian")]],
                     baseline_objective |-> PyStr("policy_gradient"),
                     baseline_optimizer |-> PyStr("adam")],
         pass |-> {"reward_estimation", "baseline_policy", "baseline_objective",
                   "baseline_optimizer"},
         flags |-> {}] >>]

\* 119-149
test_advantage_estimate ==
    [name |-> "advantage estimate",
     scenarios |-> <<
        \* 122-123
        [assign |-> [reward_estimation |->
                        [horizon |-> PyInt(2), estimate_horizon |-> PyBool(FALSE),
                         estimate_advantage |-> PyBool(TRUE)]],
         pass |-> {"reward_estimation"}, flags |-> {}],
        \* 125-138
        [assign |-> [reward_estimation |->
                        [horizon |-> PyInt(2), estimate_horizon |-> PyStr("early"),
                         estimate_actions |-> PyBool(TRUE),
                         estimate_advantage |-> PyBool(TRUE)],
                     baseline_policy |->
                        [network |-> AutoNetwork(7, PyBool(FALSE)),
                         distributions |-> [float |-> PyStr("gaussian")]],
                     baseline_optimizer |-> PyStr("adam")],
         pass |-> {"reward_estimation", "baseline_policy", "baseline_optimizer"},
         flags |-> {}],
        \* 140-149
        [assign |-> [reward_estimation |->
                        [horizon |-> PyInt(2), estimate_horizon |-> PyStr("late"),
                         estimate_terminal |-> PyBool(TRUE),
                         estimate_advantage |-> PyBool(TRUE)],
                     baseline_policy |-> [network |-> AutoNetwork(7, PyInt(1))],
                     baseline_objective |-> PyStr("policy_gradient"),
                     baseline_optimizer |-> PyStr("adam")],
         pass |-> {"reward_estimation", "baseline_policy", "baseline_objective",
                   "baseline_optimizer"},
         flags |-> {}] >>]

TestMethods ==
    {"test_no_horizon_estimate", "test_early_horizon_estimate",
     "test_late_horizon_estimate", "test_advantage_estimate"}

TestMethod(m) ==
    CASE m = "test_no_horizon_estimate" -> test_no_horizon_estimate
      [] m = "test_early_horizon_estimate" -> test_early_horizon_estimate
      [] m = "test_late_horizon_estimate" -> test_late_horizon_estimate
      [] m = "test_advantage_estimate" -> test_advantage_estimate

Scenario == TestMethod(test_method).scenarios[test_pos]

\* A test method is entered (each on a TestCase instance of its own, in the
\* order the runner picks) and calls self.start_tests(name=...).
StartTests ==
    /\ test_method = "none"
    /\ \E m \in TestMethods \ tests_run :
          /\ test_method' = m
          /\ start_name' = PyStr(TestMethod(m).name)
    /\ test_pos' = 1
    /\ test_phase' = "assign"
    /\ test_locals' = [k \in TestLocalNames |-> Unbound]
    /\ UNCHANGED <<tests_run, unittest_calls>>
    /\ UNCHANGED vars

\* the assignments of the next scenario
AssignLocals ==
    /\ test_method # "none"
    /\ test_pos <= Len(TestMethod(test_method).scenarios)
    /\ test_phase = "assign"
    /\ test_locals' =
          [k \in TestLocalNames |->
              IF k \in DOMAIN Scenario.assign THEN Scenario.assign[k]
              ELSE test_locals[k]]
    /\ test_phase' = "call"
    /\ UNCHANGED <<test_method, test_pos, start_name, tests_run, unittest_calls>>
    /\ UNCHANGED vars

\* self.unittest(...): the keyword arguments of the call
UnittestKwargs(scenario, loc) ==
    [k \in scenario.pass \cup scenario.flags |->
        IF k \in scenario.flags THEN PyBool(TRUE) ELSE loc[k]]

Unittest ==
    /\ test_method # "none"
    /\ test_pos <= Len(TestMethod(test_method).scenarios)
    /\ test_phase = "call"
    /\ unittest_calls' = Append(unittest_calls, UnittestKwargs(Scenario, test_locals))
    /\ test_pos' = test_pos + 1
    /\ test_phase' = "assign"
    /\ UNCHANGED <<test_method, test_locals, start_name, tests_run>>
    /\ UNCHANGED vars

\* the test method returns after its last scenario
FinishTest ==
    /\ test_method # "none"
    /\ test_pos > Len(TestMethod(test_method).scenarios)
    /\ tests_run' = tests_run \cup {test_method}
    /\ test_method' = "none"
    /\ UNCHANGED <<test_pos, test_phase, test_locals, start_name, unittest_calls>>
    /\ UNCHANGED vars

HarnessNext ==
    \/ StartTests
    \/ AssignLocals
    \/ Unittest
    \/ FinishTest

HarnessSpec == Init /\ [][HarnessNext]_<<vars, harness_vars>>

----------------------------------------------------------------------------
(* Vocabulary of the properties *)

Called == pc # "idle"
Constructed == pc = "done"
Failed == pc = "raised"
AssertionFailed == Failed /\ raised = PyStr("AssertionError")

\* the keyword arguments the superclass constructor was called with
Handed == super_calls[1]

HasKey(d, k) == k \in DOMAIN d

\* the call gave the four required arguments and nothing else
OnlyRequiredGiven ==
    Called /\ \E bs \in 1..MaxBatchSize : args = Required(bs) @@ Defaults

\* positions after the assert statement of either branch
PastAssert == pc \in {"L267", "L276", "L278", "done"}

----------------------------------------------------------------------------
(* C1: in a call with critic_network = None, a critic_optimizer that is not
   None makes the construction fail by AssertionError (it never gets past the
   assert, and never reaches the superclass constructor); with critic_optimizer
   None the construction does not fail, and the superclass constructor is
   handed baseline_policy = None, baseline_objective = None and
   baseline_optimizer = None. *)
C1_NoCritic ==
    (Called /\ args.critic_network = None) =>
        /\ args.critic_optimizer # None =>
              /\ ~PastAssert
              /\ super_calls = <<>>
              /\ pc \notin {"L269", "L274", "L275"}
              /\ Failed => AssertionFailed
        /\ args.critic_optimizer = None =>
              /\ ~Failed
              /\ raised = None
              /\ Constructed =>
                    /\ Len(super_calls) = 1
                    /\ Handed.baseline_policy = None
                    /\ Handed.baseline_objective = None
                    /\ Handed.baseline_optimizer = None

C1_Witness ==
    /\ AssertionFailed
    /\ args.critic_network = None
    /\ args.critic_optimizer = PyStr("adam")
    /\ baseline_policy = None
    /\ baseline_objective = Unbound

(* C2: in a call with critic_network not None, critic_optimizer = None makes
   the construction fail by AssertionError before the superclass constructor
   is reached; otherwise the superclass constructor is handed
   baseline_policy = {network: critic_network},
   baseline_objective = {type: 'value', value: 'state'} and
   baseline_optimizer = critic_optimizer. *)
C2_Critic ==
    (Called /\ args.critic_network # None) =>
        /\ args.critic_optimizer = None =>
              /\ ~PastAssert
              /\ super_calls = <<>>
              /\ pc \notin {"L264", "L265", "L266"}
              /\ Failed => AssertionFailed
        /\ args.critic_optimizer # None =>
              /\ ~Failed
              /\ raised = None
              /\ Constructed =>
                    /\ Len(super_calls) = 1
                    /\ Handed.baseline_policy = [network |-> args.critic_network]
                    /\ Handed.baseline_objective =
                          [type |-> PyStr("value"), value |-> PyStr("state")]
                    /\ Handed.baseline_optimizer = args.critic_optimizer

C2_Witness ==
    /\ Constructed
    /\ args.critic_network = PyStr("auto")
    /\ Handed.baseline_optimizer = PyStr("adam")
    /\ Handed.baseline_policy = [network |-> PyStr("auto")]

(* C3: a call with a critic_network and critic_optimizer left at None is
   accepted: the construction does not fail (docstring, lines 89-95: "main
   optimizer will be used for critic if none"). *)
C3_CriticOptimizerOptional ==
    (Called /\ args.critic_network # None /\ args.critic_optimizer = None) =>
        ~Failed

(* C4: the optimizer handed to the superclass constructor is exactly
   multi_step(num_steps = optimization_steps) around
   subsampling_step(fraction = subsampling_fraction) around
   adam(learning_rate = learning_rate); with only the required arguments
   given the three values are 3e-4, 0.33 and 10. *)
C4_OptimizerBlock ==
    Constructed =>
        /\ Handed.optimizer =
              [type |-> PyStr("multi_step"),
               num_steps |-> args.optimization_steps,
               optimizer |->
                  [type |-> PyStr("subsampling_step"),
                   fraction |-> args.subsampling_fraction,
                   optimizer |->
                      [type |-> PyStr("adam"),
                       learning_rate |-> args.learning_rate]]]
        /\ OnlyRequiredGiven =>
              /\ Handed.optimizer.num_steps = PyInt(10)
              /\ Handed.optimizer.optimizer.fraction = PyFloat(3300)
              /\ Handed.optimizer.optimizer.optimizer.learning_rate = PyFloat(3)

C4_Witness ==
    /\ Constructed
    /\ OnlyRequiredGiven
    /\ Handed.optimizer.optimizer.optimizer.learning_rate = PyFloat(3)

(* C5: the update block handed to the superclass constructor has
   unit = 'episodes' and batch_size = the batch_size argument; it has no
   frequency key when update_frequency is None and frequency =
   update_frequency otherwise. *)
C5_UpdateBlock ==
    Constructed =>
        /\ Handed.update.unit = PyStr("episodes")
        /\ Handed.update.batch_size = args.batch_size
        /\ IF args.update_frequency = None
           THEN DOMAIN Handed.update = {"unit", "batch_size"}
           ELSE /\ DOMAIN Handed.update = {"unit", "batch_size", "frequency"}
                /\ Handed.update.frequency = args.update_frequency

C5_Witness ==
    /\ Constructed
    /\ args.update_frequency = None
    /\ ~HasKey(Handed.update, "frequency")
    /\ Handed.update.batch_size = PyInt(MaxBatchSize)

(* C6: the memory block handed to the superclass constructor has
   type = 'recent'; it has no capacity key when the memory argument is None
   and capacity = the memory argument otherwise. *)
C6_MemoryBlock ==
    Constructed =>
        /\ Handed.memory.type = PyStr("recent")
        /\ IF args.memory = None
           THEN DOMAIN Handed.memory = {"type"}
           ELSE /\ DOMAIN Handed.memory = {"type", "capacity"}
                /\ Handed.memory.capacity = args.memory

C6_Witness ==
    /\ Constructed
    /\ args.memory = None
    /\ ~HasKey(Handed.memory, "capacity")

(* C7: once set, self.spec holds every constructor argument under its name,
   as the caller gave it (None included), plus agent = 'ppo', through the
   rest of the construction: spec['memory'] and spec['update_frequency'] are
   the caller's arguments although memory is rebound to the memory block and
   the update block is built. *)
C7_SpecVerbatim ==
    (pc \notin {"idle", "L227"}) =>
        /\ DOMAIN self_spec = DOMAIN args \cup {"agent"}
        /\ self_spec.agent = PyStr("ppo")
        /\ \A k \in DOMAIN args : self_spec[k] = args[k]

C7_Witness ==
    /\ Constructed
    /\ args.memory = PyInt(MaxMemory)
    /\ memory = [type |-> PyStr("recent"), capacity |-> PyInt(MaxMemory)]
    /\ self_spec.memory = PyInt(MaxMemory)
    /\ args.update_frequency = PyStr("never")
    /\ self_spec.update_frequency = PyStr("never")
    /\ self_spec.seed = None

(* C8: the superclass constructor is called at most once, only when every
   derived block is bound and the critic_network / critic_optimizer check has
   passed; a construction that violates the dependency fails without a call,
   a construction that completes has made exactly one. *)
CriticConsistent(a) == (a.critic_network = None) <=> (a.critic_optimizer = None)

C8_SuperCalledOnce ==
    /\ Len(super_calls) <= 1
    /\ super_calls # <<>> =>
          /\ Constructed
          /\ raised = None
          /\ CriticConsistent(args)
          /\ \A v \in {policy, memory, update, optimizer, objective,
                       reward_estimation, baseline_policy, baseline_objective} :
                v # Unbound
          /\ Handed = SuperKwargs(args, policy, memory, update, optimizer, objective,
                                  reward_estimation, baseline_policy,
                                  baseline_objective)
    /\ (Called /\ ~CriticConsistent(args)) => (super_calls = <<>> /\ ~PastAssert)
    /\ Failed => (super_calls = <<>> /\ ~CriticConsistent(args))
    /\ Constructed => Len(super_calls) = 1

C8_Witness ==
    /\ Failed
    /\ args.critic_network # None
    /\ args.critic_optimizer = None
    /\ super_calls = <<>>
    /\ baseline_objective = Unbound

(* C9: with only the required arguments given the construction does not fail
   and hands the superclass constructor objective = {type 'policy_gradient',
   ratio_based True, clipping_value 0.2} and a reward_estimation of horizon
   'episode' and discount 0.99; in every construction clipping_value =
   likelihood_ratio_clipping and the reward_estimation discount = discount. *)
C9_ObjectiveAndDiscount ==
    /\ OnlyRequiredGiven =>
          /\ ~Failed
          /\ Constructed =>
                /\ Handed.objective =
                      [type |-> PyStr("policy_gradient"), ratio_based |-> PyBool(TRUE),
                       clipping_value |-> PyFloat(2000)]
                /\ Handed.reward_estimation =
                      [horizon |-> PyStr("episode"), discount |-> PyFloat(9900)]
    /\ Constructed =>
          /\ Handed.objective.type = PyStr("policy_gradient")
          /\ Handed.objective.ratio_based = PyBool(TRUE)
          /\ Handed.objective.clipping_value = args.likelihood_ratio_clipping
          /\ Handed.reward_estimation.horizon = PyStr("episode")
          /\ Handed.reward_estimation.discount = args.discount

C9_Witness ==
    /\ Constructed
    /\ OnlyRequiredGiven
    /\ Handed.objective.clipping_value = PyFloat(2000)
    /\ Handed.reward_estimation.discount = PyFloat(9900)

(* C10, as stated: the optimizer chain is subsampling around multi-step
   around the base optimizer: subsampling_step is the outermost stage,
   multi_step is inside it, adam is innermost. *)
C10_SubsamplingOutermost ==
    Constructed =>
        /\ Handed.optimizer.type = PyStr("subsampling_step")
        /\ Handed.optimizer.optimizer.type = PyStr("multi_step")
        /\ Handed.optimizer.optimizer.optimizer.type = PyStr("adam")

(* C10, amended: the optimizer chain is multi-step around subsampling around
   the base optimizer: multi_step is the outermost stage, subsampling_step is
   inside it, and adam is innermost (it wraps no further optimizer). *)
StageTypes(opt) ==
    <<opt.type.val, opt.optimizer.type.val, opt.optimizer.optimizer.type.val>>

C10_MultiStepOutermost ==
    Constructed =>
        /\ StageTypes(Handed.optimizer) = <<"multi_step", "subsampling_step", "adam">>
        /\ ~HasKey(Handed.optimizer.optimizer.optimizer, "optimizer")

C10_Witness ==
    /\ Constructed
    /\ Handed.optimizer.type = PyStr("multi_step")
    /\ Handed.optimizer.num_steps = PyInt(4)
    /\ Handed.optimizer.optimizer.type = PyStr("subsampling_step")


(* C12: the reward_estimation handed to the superclass constructor depends on
   the critic branch. With critic_network None it is exactly {horizon:
   'episode', discount: discount}, so estimate_terminal, even True, does not
   reach the superclass constructor; with a critic_network it is exactly
   {horizon: 'episode', discount: discount, estimate_horizon: 'early',
   estimate_terminal: the argument, estimate_advantage: True}, and
   estimate_horizon is never False. *)
C12_RewardEstimationByBranch ==
    Constructed =>
        IF args.critic_network = None
        THEN /\ DOMAIN Handed.reward_estimation = {"horizon", "discount"}
             /\ Handed.reward_estimation.horizon = PyStr("episode")
             /\ Handed.reward_estimation.discount = args.discount
        ELSE /\ DOMAIN Handed.reward_estimation =
                   {"horizon", "discount", "estimate_horizon", "estimate_terminal",
                    "estimate_advantage"}
             /\ Handed.reward_estimation.horizon = PyStr("episode")
             /\ Handed.reward_estimation.discount = args.discount
             /\ Handed.reward_estimation.estimate_horizon = PyStr("early")
             /\ Handed.reward_estimation.estimate_horizon # PyBool(FALSE)
             /\ Handed.reward_estimation.estimate_terminal = args.estimate_terminal
             /\ Handed.reward_estimation.estimate_advantage = PyBool(TRUE)

C12_Witness ==
    /\ Constructed
    /\ args.critic_network = None
    /\ args.estimate_terminal = PyBool(TRUE)
    /\ ~HasKey(Handed.reward_estimation, "estimate_terminal")

(* C13: in every construction that reaches the superclass constructor,
   baseline_policy, baseline_optimizer and baseline_objective are all None or
   all not None, and they are not None exactly when reward_estimation carries
   estimate_advantage = True and estimate_horizon = 'early'. *)
AdvantageWithEarlyHorizon(rew) ==
    /\ HasKey(rew, "estimate_advantage")
    /\ rew.estimate_advantage = PyBool(TRUE)
    /\ HasKey(rew, "estimate_horizon")
    /\ rew.estimate_horizon = PyStr("early")

C13_BaselineAllOrNothing ==
    \A i \in 1..Len(super_calls) :
        LET kw == super_calls[i]
            given == {kw.baseline_policy # None, kw.baseline_optimizer # None,
                      kw.baseline_objective # None}
        IN /\ Cardinality(given) = 1
           /\ (TRUE \in given) <=> AdvantageWithEarlyHorizon(kw.reward_estimation)

C13_Witness ==
    /\ Constructed
    /\ Handed.baseline_policy # None
    /\ Handed.baseline_optimizer # None
    /\ Handed.baseline_objective # None
    /\ AdvantageWithEarlyHorizon(Handed.reward_estimation)
    /\ args.estimate_terminal = PyBool(TRUE)


(* C11: every self.unittest(...) call of the reward-estimation tests passes a
   reward_estimation mapping, and every call whose reward_estimation sets
   estimate_actions = True also passes a baseline_optimizer (not None): no
   scenario asks for an action-value baseline without its own optimizer. *)
IsMapping(v) == "tag" \notin DOMAIN v

EstimatesActions(rew) ==
    HasKey(rew, "estimate_actions") /\ rew.estimate_actions = PyBool(TRUE)

C11_ActionValueHasOptimizer ==
    \A i \in 1..Len(unittest_calls) :
        LET kw == unittest_calls[i]
        IN /\ HasKey(kw, "reward_estimation")
           /\ IsMapping(kw.reward_estimation)
           /\ EstimatesActions(kw.reward_estimation) =>
                 /\ HasKey(kw, "baseline_optimizer")
                 /\ kw.baseline_optimizer \notin {None, Unbound}

C11_Witness ==
    /\ tests_run = TestMethods
    /\ Cardinality({i \in 1..Len(unittest_calls) :
                       /\ EstimatesActions(unittest_calls[i].reward_estimation)
                       /\ unittest_calls[i].baseline_optimizer = PyStr("adam")}) = 5
    /\ \E i \in 1..Len(unittest_calls) :
          ~HasKey(unittest_calls[i], "baseline_optimizer")

====
